---------------------------- MODULE Spec2Model ----------------------------
(***************************************************************************)
(* Match clock and sanction rule engine of teste.py (handball statistics). *)
(*                                                                         *)
(* The variable gs is the dictionary st.session_state.game_state; now is   *)
(* the wall clock read by now_ts(); out holds the notifications (st.toast, *)
(* st.warning, st.error) of the latest script run; force_out_ctx is the    *)
(* pending "withdraw a player" dialog (_open_force_out / _force_out_ctx);  *)
(* nticks counts the advances of the wall clock and nops the runs started  *)
(* by the user, both to bound the exploration.                             *)
(*                                                                         *)
(* Time is counted in whole seconds, so int(x) is the identity on every    *)
(* value of the model.  One script run is taken at one instant: every      *)
(* now_ts() of a run returns the same value, and the wall clock advances   *)
(* between runs (action Tick).                                             *)
(***************************************************************************)
EXTENDS Integers, Sequences, FiniteSets

VARIABLES gs, now, out, force_out_ctx, nticks, nops

vars == <<gs, now, out, force_out_ctx, nticks, nops>>

-----------------------------------------------------------------------------
(* Bounds of the model *)

\* officials of the roster (sheet "Oficiais")
NOfficials == 2
\* advances of the wall clock in one behaviour
MaxTicks == 4
\* runs started by the user (clicks) in one behaviour
MaxOps == 3
\* sanctions in one behaviour of SpecBench
MaxWaits == 6
MaxStopOps == 4
MaxBenchOps == 6
\* advances of the wall clock in one behaviour of Spec
SpecTicks == 1

(* Program constants *)

half_len == 1800
FieldSize == 7
\* mutant: a floor of two on the field
FieldFloorLoose == 3 - 1
FieldFloor == 3
TwoMinutes == 120
LastMinute == 60
\* mutant: one yellow card too many for the team
TeamYellowCapLoose == 3 + 1
TeamYellowCap == 3
OfficialsYellowCap == 1
\* mutant: one suspension too many for the officials
OfficialsTwoCapLoose == 1 + 1
OfficialsTwoCap == 1
\* mutant: disqualification at the fourth suspension
DisqAtLoose == 3 + 1
DisqAt == 3

\* the roster: seven starters and one substitute, then the officials
NPlayers == FieldSize + 1
Players == 1..NPlayers
Officials == (NPlayers + 1)..(NPlayers + NOfficials)
Entities == Players \cup Officials

\* wall-clock steps between two script runs, in seconds
Deltas == {60, 1740}

None == <<>>
Some(x) == <<x>>
Val(o) == o[1]

Max(a, b) == IF a >= b THEN a ELSE b
Min(a, b) == IF a <= b THEN a ELSE b

-----------------------------------------------------------------------------
(* Zone compatibility *)

GOAL_CHOICES ==
  {"9m", "6m", "Penetracao", "1 Vaga", "2 Vaga", "3 Vaga", "Baliza Aberta",
   "7m", "Pivot", "Ponta"}

ZONE_COMPAT_MAP ==
  [typ \in GOAL_CHOICES |->
     CASE typ = "Ponta" -> <<"SET", {1, 5}>>
       [] typ \in {"Pivot", "Penetracao", "6m"} -> <<"SET", {2, 3, 4}>>
       [] typ = "9m" -> <<"SET", {6, 7, 8}>>
       [] typ \in {"Baliza Aberta", "7m"} -> <<"NO_ZONE", {}>>
       [] OTHER -> <<"ALL", {}>>]

\* mutant: a shot type absent from the table gets no zone
allowed_zones_listed(typ) ==
  IF typ \notin DOMAIN ZONE_COMPAT_MAP THEN {}
  ELSE IF ZONE_COMPAT_MAP[typ][1] = "ALL" THEN 1..8
  ELSE IF ZONE_COMPAT_MAP[typ][1] = "NO_ZONE" THEN {}
  ELSE ZONE_COMPAT_MAP[typ][2]

allowed_zones_for(typ) ==
  LET spec == IF typ \in DOMAIN ZONE_COMPAT_MAP THEN ZONE_COMPAT_MAP[typ]
              ELSE <<"ALL", {}>>
  IN  IF spec[1] = "ALL" THEN 1..8
      ELSE IF spec[1] = "NO_ZONE" THEN {}
      ELSE spec[2]

-----------------------------------------------------------------------------
(* Eligibility *)

current_allowed_on_field(g) ==
  LET per_player_active ==
        Cardinality({pid \in DOMAIN g.players :
                       ~g.players[pid].is_official /\ g.players[pid].two_active > 0})
      team_active ==
        Cardinality({i \in 1..Len(g.team_penalties) : g.team_penalties[i] > 0})
  IN  Max(FieldFloor, FieldSize - (per_player_active + team_active))

play_unlocked(g) == (g.half = 2) \/ (Cardinality(g.on_field_set) = FieldSize)

-----------------------------------------------------------------------------
(* Initial state *)

\* forced_bench_s is read only through .get(pid, 0.0) and through the loop of
\* flush_time, which maps 0 to 0: a missing key and a key holding 0 are the
\* same to every reader, so the dictionary is a total map with default 0.

NewPlayer(pid) ==
  [is_official |-> FALSE, in_field |-> FALSE, time_played |-> 0, yellow |-> 0,
   two_total |-> 0, two_active |-> 0, red |-> 0, disq |-> FALSE,
   tech_faults |-> 0, conquistas |-> <<>>]

\* an official's dictionary has no in_field, time_played, tech_faults or
\* conquistas key; every read of them goes through p.get(key, default)
NewOfficial(pid) ==
  [is_official |-> TRUE, in_field |-> FALSE, time_played |-> 0, yellow |-> 0,
   two_total |-> 0, two_active |-> 0, red |-> 0, disq |-> FALSE,
   tech_faults |-> 0, conquistas |-> <<>>]

init_state ==
  [players |-> [pid \in Entities |->
                  IF pid \in Officials THEN NewOfficial(pid) ELSE NewPlayer(pid)],
   running |-> FALSE,
   start_time |-> None,
   elapsed |-> 0,
   half |-> 1,
   last_minute_alert |-> FALSE,
   on_field_set |-> {},
   team_penalties |-> <<>>,
   passive |-> FALSE,
   team_yellow_total |-> 0,
   officials_yellow_total |-> 0,
   officials_two_total |-> 0,
   forced_bench_s |-> [pid \in Players |-> 0],
   score_for |-> [h \in 1..2 |-> 0],
   score_against |-> [h \in 1..2 |-> 0],
   goals |-> <<>>,
   shots |-> <<>>,
   events |-> <<>>,
   last_snapshot |-> None]

-----------------------------------------------------------------------------
(* The world an operation works on: the game state, the instant of the     *)
(* script run, the notifications emitted so far and the pending dialog.    *)

World(g, t, fo) == [gs |-> g, now |-> t, out |-> <<>>, fo |-> fo]

Emit(w, kind, arg) == [w EXCEPT !.out = Append(@, <<kind, arg>>)]

RECURSIVE EmitAll(_, _, _)
EmitAll(w, kind, args) ==
  IF args = <<>> THEN w
  ELSE EmitAll(Emit(w, kind, Head(args)), kind, Tail(args))

RECURSIVE Repeat(_, _)
Repeat(x, n) == IF n <= 0 THEN <<>> ELSE <<x>> \o Repeat(x, n - 1)

\* the members of S in roster order (the insertion order of gs["players"])
RECURSIVE Ordered(_, _)
Ordered(S, i) ==
  IF i > NPlayers + NOfficials THEN <<>>
  ELSE (IF i \in S THEN <<i>> ELSE <<>>) \o Ordered(S, i + 1)

-----------------------------------------------------------------------------
(* Snapshots (undo) *)

SNAP_KEYS ==
  {"players", "on_field_set", "team_penalties", "team_yellow_total",
   "officials_yellow_total", "officials_two_total", "forced_bench_s",
   "score_for", "score_against", "goals", "shots", "events",
   "running", "start_time", "elapsed", "half", "last_minute_alert"}

deep_snapshot_from(keys, src) == [k \in keys |-> src[k]]

\* mutant: an older snapshot is kept
push_snapshot_once(w, label) ==
  IF w.gs.last_snapshot # None THEN w
  ELSE [w EXCEPT !.gs.last_snapshot =
          Some([k \in SNAP_KEYS \cup {"label"} |->
                  IF k = "label" THEN label ELSE w.gs[k]])]

push_snapshot(w, label) ==
  LET snap == [k \in SNAP_KEYS \cup {"label"} |->
                 IF k = "label" THEN label
                 ELSE deep_snapshot_from(SNAP_KEYS, w.gs)[k]]
  IN  [w EXCEPT !.gs.last_snapshot = Some(snap)]

\* mutant: the snapshot stays in its slot
undo_last_keeps(w) ==
  IF w.gs.last_snapshot = None
  THEN Emit(w, "warn_nothing_to_undo", 0)
  ELSE LET last == Val(w.gs.last_snapshot)
           g2 == [k \in DOMAIN w.gs |->
                    IF k \in SNAP_KEYS THEN last[k] ELSE w.gs[k]]
       IN  Emit([w EXCEPT !.gs = g2], "undone", 0)

undo_last(w) ==
  IF w.gs.last_snapshot = None
  THEN Emit(w, "warn_nothing_to_undo", 0)
  ELSE LET last == Val(w.gs.last_snapshot)
           g2 == [k \in DOMAIN w.gs |->
                    IF k \in SNAP_KEYS THEN last[k]
                    ELSE IF k = "last_snapshot" THEN None
                    ELSE w.gs[k]]
       IN  Emit([w EXCEPT !.gs = g2], "undone", 0)

-----------------------------------------------------------------------------
(* Time *)

Finished(before, after) == before > 0 /\ after = 0

\* mutant: "=" for "+="
advance_clock_assign(w, delta) ==
  [w EXCEPT !.gs.elapsed = delta, !.gs.start_time = Some(w.now)]

\* mutant: start_time is not moved to the instant of the flush
advance_clock_stale(w, delta) ==
  [w EXCEPT !.gs.elapsed = @ + delta]

\* "gs[elapsed] += delta; gs[start_time] = now"
advance_clock(w, delta) ==
  [w EXCEPT !.gs.elapsed = @ + delta, !.gs.start_time = Some(w.now)]

\* mutant: the countdowns are not cut at 0
count_down_unclamped(w, delta) ==
  LET g == w.gs
      players1 ==
        [pid \in DOMAIN g.players |->
           LET p == g.players[pid] IN
           [p EXCEPT
              !.time_played =
                 IF pid \in g.on_field_set /\ ~p.is_official THEN @ + delta ELSE @,
              !.two_active = IF @ > 0 THEN @ - delta ELSE @]]
      team1 ==
        [i \in 1..Len(g.team_penalties) |->
           LET t == g.team_penalties[i] IN IF t > 0 THEN t - delta ELSE t]
      forced1 ==
        [pid \in DOMAIN g.forced_bench_s |-> g.forced_bench_s[pid] - delta]
  IN  [w EXCEPT !.gs.players = players1,
                !.gs.team_penalties = team1,
                !.gs.forced_bench_s = forced1]

\* mutant: the bench is credited with playing time too
count_down_all(w, delta) ==
  LET g == w.gs
      players1 ==
        [pid \in DOMAIN g.players |->
           LET p == g.players[pid] IN
           [p EXCEPT
              !.time_played =
                 IF ~p.is_official THEN @ + delta ELSE @,
              !.two_active = IF @ > 0 THEN Max(0, @ - delta) ELSE @]]
      finished_players ==
        {pid \in DOMAIN g.players :
           Finished(g.players[pid].two_active, players1[pid].two_active)}
      team1 ==
        [i \in 1..Len(g.team_penalties) |->
           LET t == g.team_penalties[i] IN
           IF t > 0 THEN Max(0, t - delta) ELSE t]
      finished_team ==
        Cardinality({i \in 1..Len(team1) : Finished(g.team_penalties[i], team1[i])})
      forced1 ==
        [pid \in DOMAIN g.forced_bench_s |-> Max(0, g.forced_bench_s[pid] - delta)]
      finished_forced ==
        {pid \in DOMAIN forced1 : Finished(g.forced_bench_s[pid], forced1[pid])}
      w1 == [w EXCEPT !.gs.players = players1,
                      !.gs.team_penalties = team1,
                      !.gs.forced_bench_s = forced1]
      w2 == EmitAll(w1, "two_minutes_over", Ordered(finished_players, 1))
      w3 == EmitAll(w2, "team_penalty_over", Repeat(0, finished_team))
  IN  EmitAll(w3, "forced_bench_over", Ordered(finished_forced, 1))

\* mutant: the end of the suspension lifts the disqualification
count_down_revives(w, delta) ==
  LET g == w.gs
      players1 ==
        [pid \in DOMAIN g.players |->
           LET p == g.players[pid] IN
           [p EXCEPT
              !.time_played =
                 IF pid \in g.on_field_set /\ ~p.is_official THEN @ + delta ELSE @,
              !.two_active = IF @ > 0 THEN Max(0, @ - delta) ELSE @,
              !.disq = IF p.two_active > 0 /\ p.two_active <= delta THEN FALSE ELSE @]]
      finished_players ==
        {pid \in DOMAIN g.players :
           Finished(g.players[pid].two_active, players1[pid].two_active)}
      team1 ==
        [i \in 1..Len(g.team_penalties) |->
           LET t == g.team_penalties[i] IN
           IF t > 0 THEN Max(0, t - delta) ELSE t]
      finished_team ==
        Cardinality({i \in 1..Len(team1) : Finished(g.team_penalties[i], team1[i])})
      forced1 ==
        [pid \in DOMAIN g.forced_bench_s |-> Max(0, g.forced_bench_s[pid] - delta)]
      finished_forced ==
        {pid \in DOMAIN forced1 : Finished(g.forced_bench_s[pid], forced1[pid])}
      w1 == [w EXCEPT !.gs.players = players1,
                      !.gs.team_penalties = team1,
                      !.gs.forced_bench_s = forced1]
      w2 == EmitAll(w1, "two_minutes_over", Ordered(finished_players, 1))
      w3 == EmitAll(w2, "team_penalty_over", Repeat(0, finished_team))
  IN  EmitAll(w3, "forced_bench_over", Ordered(finished_forced, 1))

\* playing time of the field, the three kinds of countdown, and their toasts
count_down(w, delta) ==
  LET g == w.gs
      players1 ==
        [pid \in DOMAIN g.players |->
           LET p == g.players[pid] IN
           [p EXCEPT
              !.time_played =
                 IF pid \in g.on_field_set /\ ~p.is_official THEN @ + delta ELSE @,
              !.two_active = IF @ > 0 THEN Max(0, @ - delta) ELSE @]]
      finished_players ==
        {pid \in DOMAIN g.players :
           Finished(g.players[pid].two_active, players1[pid].two_active)}
      team1 ==
        [i \in 1..Len(g.team_penalties) |->
           LET t == g.team_penalties[i] IN
           IF t > 0 THEN Max(0, t - delta) ELSE t]
      finished_team ==
        Cardinality({i \in 1..Len(team1) : Finished(g.team_penalties[i], team1[i])})
      forced1 ==
        [pid \in DOMAIN g.forced_bench_s |-> Max(0, g.forced_bench_s[pid] - delta)]
      finished_forced ==
        {pid \in DOMAIN forced1 : Finished(g.forced_bench_s[pid], forced1[pid])}
      w1 == [w EXCEPT !.gs.players = players1,
                      !.gs.team_penalties = team1,
                      !.gs.forced_bench_s = forced1]
      w2 == EmitAll(w1, "two_minutes_over", Ordered(finished_players, 1))
      w3 == EmitAll(w2, "team_penalty_over", Repeat(0, finished_team))
  IN  EmitAll(w3, "forced_bench_over", Ordered(finished_forced, 1))

last_minute(w) ==
  LET rem == Max(0, half_len - w.gs.elapsed)
  IN  IF w.gs.running /\ rem <= LastMinute /\ ~w.gs.last_minute_alert
      THEN [Emit(w, "last_minute", rem) EXCEPT !.gs.last_minute_alert = TRUE]
      ELSE w

\* mutant: the overshoot is kept
end_of_half_unclamped(w) ==
  IF w.gs.elapsed >= half_len
  THEN LET w1 == Emit([w EXCEPT !.gs.running = FALSE], "half_over", w.gs.half)
       IN  IF w1.gs.half = 1
           THEN Emit([w1 EXCEPT !.gs.half = 2,
                                !.gs.elapsed = 0,
                                !.gs.start_time = None,
                                !.gs.last_minute_alert = FALSE],
                     "ready_second_half", 0)
           ELSE Emit(w1, "match_over", 0)
  ELSE w

\* mutant: the second half inherits start_time and the alert flag
end_of_half_stale(w) ==
  IF w.gs.elapsed >= half_len
  THEN LET w1 == Emit([w EXCEPT !.gs.elapsed = half_len, !.gs.running = FALSE],
                      "half_over", w.gs.half)
       IN  IF w1.gs.half = 1
           THEN Emit([w1 EXCEPT !.gs.half = 2, !.gs.elapsed = 0],
                     "ready_second_half", 0)
           ELSE Emit(w1, "match_over", 0)
  ELSE w

end_of_half(w) ==
  IF w.gs.elapsed >= half_len
  THEN LET w1 == Emit([w EXCEPT !.gs.elapsed = half_len, !.gs.running = FALSE],
                      "half_over", w.gs.half)
       IN  IF w1.gs.half = 1
           THEN Emit([w1 EXCEPT !.gs.half = 2,
                                !.gs.elapsed = 0,
                                !.gs.start_time = None,
                                !.gs.last_minute_alert = FALSE],
                     "ready_second_half", 0)
           ELSE Emit(w1, "match_over", 0)
  ELSE w

\* mutant: the flush does not look at the running flag
flush_time_always(w) ==
  IF w.gs.start_time = None THEN [w EXCEPT !.gs.start_time = Some(w.now)]
  ELSE LET delta == Max(0, w.now - Val(w.gs.start_time))
       IN  IF delta = 0 THEN w
           ELSE end_of_half(last_minute(count_down(advance_clock(w, delta), delta)))

flush_time(w) ==
  IF ~w.gs.running THEN w
  ELSE IF w.gs.start_time = None THEN [w EXCEPT !.gs.start_time = Some(w.now)]
  ELSE LET delta == Max(0, w.now - Val(w.gs.start_time))
       IN  IF delta = 0 THEN w
           ELSE end_of_half(last_minute(count_down(advance_clock(w, delta), delta)))

\* mutant: seven on the field demanded in both halves
start_play_seven_always(w) ==
  IF Cardinality(w.gs.on_field_set) # FieldSize
  THEN Emit(w, "warn_need_seven", 0)
  ELSE [w EXCEPT !.gs.running = TRUE, !.gs.start_time = Some(w.now)]

start_play(w) ==
  IF w.gs.half = 1 /\ Cardinality(w.gs.on_field_set) # FieldSize
  THEN Emit(w, "warn_need_seven", 0)
  ELSE [w EXCEPT !.gs.running = TRUE, !.gs.start_time = Some(w.now)]

pause_play(w) ==
  LET w1 == IF w.gs.running THEN flush_time(w) ELSE w
  IN  [w1 EXCEPT !.gs.running = FALSE]

get_elapsed_now(w) ==
  IF w.gs.running /\ w.gs.start_time # None
  THEN w.gs.elapsed + (w.now - Val(w.gs.start_time))
  ELSE w.gs.elapsed

\* the last statement of the script
keep_elapsed(w) ==
  IF ~w.gs.running THEN [w EXCEPT !.gs.elapsed = get_elapsed_now(w)] ELSE w

-----------------------------------------------------------------------------
(* Sanctions *)

\* mutant: no dialog is opened
force_out_dialog_skipped(w, duration_s, reason) == w

open_force_out_dialog(w, duration_s, reason) ==
  [w EXCEPT !.fo = Some([duration |-> duration_s, reason |-> reason])]

\* mutant: the sanctioned player is left on the field
leave_field_forgotten(w, pid) ==
  IF pid \in w.gs.on_field_set THEN flush_time(w) ELSE w

\* "if pid in on_field_set: flush_time(); discard(pid); in_field = False"
leave_field_if_on(w, pid) ==
  IF pid \in w.gs.on_field_set
  THEN LET w1 == flush_time(w)
       IN  [w1 EXCEPT !.gs.on_field_set = @ \ {pid},
                      !.gs.players[pid].in_field = FALSE]
  ELSE w

give_yellow(w, pid) ==
  LET g == w.gs
      p == g.players[pid]
  IN  IF p.disq THEN Emit(w, "warn_disqualified", pid)
      ELSE IF p.is_official
      THEN IF g.officials_yellow_total >= OfficialsYellowCap
           THEN Emit(w, "warn_officials_yellow_limit", pid)
           ELSE IF p.yellow >= 1 THEN Emit(w, "warn_official_has_yellow", pid)
           ELSE LET w1 == push_snapshot(w, <<"Amarelo Oficial", pid>>)
                IN  Emit([w1 EXCEPT !.gs.players[pid].yellow = 1,
                                    !.gs.officials_yellow_total = @ + 1],
                         "yellow_official", pid)
      ELSE IF g.team_yellow_total >= TeamYellowCap
           THEN Emit(w, "warn_team_yellow_limit", pid)
           ELSE IF p.yellow >= 1 THEN Emit(w, "warn_player_has_yellow", pid)
           ELSE LET w1 == push_snapshot(w, <<"Amarelo", pid>>)
                IN  Emit([w1 EXCEPT !.gs.players[pid].yellow = 1,
                                    !.gs.team_yellow_total = @ + 1],
                         "yellow", pid)

\* mutant: the official's own record is not written
two_minutes_official_unrecorded(w, pid) ==
  IF w.gs.officials_two_total >= OfficialsTwoCap
  THEN Emit(w, "warn_officials_two_limit", pid)
  ELSE open_force_out_dialog(
         Emit([w EXCEPT !.gs.officials_two_total = @ + 1,
                        !.gs.team_penalties = Append(@, TwoMinutes)],
              "two_minutes_official", pid),
         TwoMinutes, "2' do Oficial")

\* give_two_minutes, the branch of an official
two_minutes_official(w, pid) ==
  IF w.gs.officials_two_total >= OfficialsTwoCap
  THEN Emit(w, "warn_officials_two_limit", pid)
  ELSE open_force_out_dialog(
         Emit([w EXCEPT !.gs.players[pid].two_total = @ + 1,
                        !.gs.officials_two_total = @ + 1,
                        !.gs.team_penalties = Append(@, TwoMinutes)],
              "two_minutes_official", pid),
         TwoMinutes, "2' do Oficial")

\* mutant: the third suspension also restarts the player's countdown
two_minutes_player_adds(w, pid) ==
  LET total == w.gs.players[pid].two_total + 1
      curr == w.gs.players[pid].two_active
  IN  IF total >= DisqAt
      THEN Emit([w EXCEPT !.gs.players[pid].two_total = total,
                          !.gs.players[pid].disq = TRUE,
                          !.gs.players[pid].two_active = curr + TwoMinutes,
                          !.gs.team_penalties = Append(@, TwoMinutes)],
                "disqualified_3x2", pid)
      ELSE Emit([w EXCEPT !.gs.players[pid].two_total = total,
                          !.gs.players[pid].two_active = curr + TwoMinutes],
                "two_minutes", pid)

\* mutant: a new suspension replaces the residual countdown
two_minutes_player_restarts(w, pid) ==
  LET total == w.gs.players[pid].two_total + 1
      curr == w.gs.players[pid].two_active
  IN  IF total >= DisqAt
      THEN Emit([w EXCEPT !.gs.players[pid].two_total = total,
                          !.gs.players[pid].disq = TRUE,
                          !.gs.players[pid].two_active = curr,
                          !.gs.team_penalties = Append(@, TwoMinutes)],
                "disqualified_3x2", pid)
      ELSE Emit([w EXCEPT !.gs.players[pid].two_total = total,
                          !.gs.players[pid].two_active = TwoMinutes],
                "two_minutes", pid)

\* give_two_minutes, the branch of a player
two_minutes_player(w, pid) ==
  LET total == w.gs.players[pid].two_total + 1
      curr == w.gs.players[pid].two_active
  IN  IF total >= DisqAt
      THEN Emit([w EXCEPT !.gs.players[pid].two_total = total,
                          !.gs.players[pid].disq = TRUE,
                          !.gs.players[pid].two_active = curr,
                          !.gs.team_penalties = Append(@, TwoMinutes)],
                "disqualified_3x2", pid)
      ELSE Emit([w EXCEPT !.gs.players[pid].two_total = total,
                          !.gs.players[pid].two_active = curr + TwoMinutes],
                "two_minutes", pid)

give_two_minutes(w, pid) ==
  IF w.gs.players[pid].disq THEN Emit(w, "warn_disqualified", pid)
  ELSE LET w1 == leave_field_if_on(push_snapshot(w, <<"2'", pid>>), pid)
       IN  IF w1.gs.players[pid].is_official
           THEN two_minutes_official(w1, pid)
           ELSE two_minutes_player(w1, pid)

\* mutant: the red card ends the countdown of the entity
red_card_clears(w, pid) ==
  LET w1 == leave_field_if_on(push_snapshot(w, <<"Vermelho", pid>>), pid)
      w2 == [w1 EXCEPT !.gs.players[pid].disq = TRUE,
                       !.gs.players[pid].red = @ + 1,
                       !.gs.players[pid].two_active = 0,
                       !.gs.team_penalties = Append(@, TwoMinutes)]
  IN  IF w2.gs.players[pid].is_official
      THEN open_force_out_dialog(Emit(w2, "red_official", pid),
                                 TwoMinutes, "Vermelho ao Oficial")
      ELSE Emit(w2, "red", pid)

\* give_red past its check
red_card(w, pid) ==
  LET w1 == leave_field_if_on(push_snapshot(w, <<"Vermelho", pid>>), pid)
      w2 == [w1 EXCEPT !.gs.players[pid].disq = TRUE,
                       !.gs.players[pid].red = @ + 1,
                       !.gs.team_penalties = Append(@, TwoMinutes)]
  IN  IF w2.gs.players[pid].is_official
      THEN open_force_out_dialog(Emit(w2, "red_official", pid),
                                 TwoMinutes, "Vermelho ao Oficial")
      ELSE Emit(w2, "red", pid)

\* mutant: no check of the disqualification
give_red_unchecked(w, pid) == red_card(w, pid)

give_red(w, pid) ==
  IF w.gs.players[pid].disq THEN Emit(w, "warn_disqualified", pid)
  ELSE red_card(w, pid)

-----------------------------------------------------------------------------
(* Goals, shots, achievements, technical faults *)

\* mutant: every goal is counted as scored
register_goal_scored(w, pid, typ, zona, sofrido) ==
  IF w.gs.players[pid].disq THEN Emit(w, "warn_disqualified", pid)
  ELSE
    LET w1 == push_snapshot(w, <<"Golo", pid>>)
        g == w1.gs
        e == [player_id |-> pid, tipo |-> typ, zona |-> zona, half |-> g.half,
              sofrido |-> sofrido, t |-> g.elapsed]
        w2 == [w1 EXCEPT !.gs.goals = Append(@, e)]
        w3 == Emit([w2 EXCEPT !.gs.score_for[g.half] = @ + 1], "goal", pid)
    IN  [w3 EXCEPT !.gs.passive = FALSE]

register_goal(w, pid, typ, zona, sofrido) ==
  IF w.gs.players[pid].disq THEN Emit(w, "warn_disqualified", pid)
  ELSE
    LET w1 == push_snapshot(w, <<"Golo", pid>>)
        g == w1.gs
        e == [player_id |-> pid, tipo |-> typ, zona |-> zona, half |-> g.half,
              sofrido |-> sofrido, t |-> g.elapsed]
        w2 == [w1 EXCEPT !.gs.goals = Append(@, e)]
        w3 == IF sofrido
              THEN Emit([w2 EXCEPT !.gs.score_against[g.half] = @ + 1],
                        "goal_conceded", pid)
              ELSE Emit([w2 EXCEPT !.gs.score_for[g.half] = @ + 1], "goal", pid)
    IN  [w3 EXCEPT !.gs.passive = FALSE]

register_shot(w, pid, outcome, typ, zona, sofrido) ==
  IF w.gs.players[pid].disq THEN Emit(w, "warn_disqualified", pid)
  ELSE
    LET w1 == push_snapshot(w, <<"Remate", pid>>)
        g == w1.gs
        e == [player_id |-> pid, tipo |-> typ, resultado |-> outcome,
              zona |-> zona, half |-> g.half, sofrido |-> sofrido, t |-> g.elapsed]
    IN  [Emit([w1 EXCEPT !.gs.shots = Append(@, e)], "shot", pid)
           EXCEPT !.gs.passive = FALSE]

add_conquista(w, pid, label) ==
  LET t == w.gs.elapsed
      w1 == [w EXCEPT !.gs.players[pid].conquistas =
                         Append(@, [t |-> t, label |-> label]),
                      !.gs.events = Append(@, [t |-> t, pid |-> pid, label |-> label])]
  IN  [Emit(w1, "achievement", pid) EXCEPT !.gs.passive = FALSE]

conquista_combo_two_plus_seven(w, pid) == add_conquista(w, pid, "2 min + 7m")

\* render_player_row, button "Falha Tecnica"
tech_fault(w, pid) ==
  LET w1 == push_snapshot(w, <<"Falha Tecnica", pid>>)
  IN  Emit([w1 EXCEPT !.gs.players[pid].tech_faults = @ + 1], "tech_fault", pid)

-----------------------------------------------------------------------------
(* Entering and leaving the field *)

\* mutant: the name button of a suspended player stays enabled
toggle_disabled_lax(g, pid) ==
  \/ g.players[pid].is_official
  \/ g.players[pid].disq
  \/ g.forced_bench_s[pid] > 0

\* the "disabled" flag of the name button of render_player_row
toggle_disabled(g, pid) ==
  \/ g.players[pid].is_official
  \/ g.players[pid].disq
  \/ g.players[pid].two_active > 0
  \/ g.forced_bench_s[pid] > 0

\* mutant: the entry is flagged on the player but not listed in the set
toggle_field_unlisted(w, pid) ==
  LET w1 == flush_time(w)
      g == w1.gs
      w2 == IF g.forced_bench_s[pid] > 0 THEN Emit(w1, "warn_blocked", pid)
            ELSE IF g.players[pid].in_field
            THEN [w1 EXCEPT !.gs.players[pid].in_field = FALSE,
                            !.gs.on_field_set = @ \ {pid}]
            ELSE IF Cardinality(g.on_field_set) >= current_allowed_on_field(g)
            THEN Emit(w1, "warn_capacity", current_allowed_on_field(g))
            ELSE [w1 EXCEPT !.gs.players[pid].in_field = TRUE]
  IN  [w2 EXCEPT !.gs.start_time = Some(w.now)]

\* mutant: one entry beyond the allowed number
toggle_field_one_more(w, pid) ==
  LET w1 == flush_time(w)
      g == w1.gs
      w2 == IF g.forced_bench_s[pid] > 0 THEN Emit(w1, "warn_blocked", pid)
            ELSE IF g.players[pid].in_field
            THEN [w1 EXCEPT !.gs.players[pid].in_field = FALSE,
                            !.gs.on_field_set = @ \ {pid}]
            ELSE IF Cardinality(g.on_field_set) > current_allowed_on_field(g)
            THEN Emit(w1, "warn_capacity", current_allowed_on_field(g))
            ELSE [w1 EXCEPT !.gs.players[pid].in_field = TRUE,
                            !.gs.on_field_set = @ \cup {pid}]
  IN  [w2 EXCEPT !.gs.start_time = Some(w.now)]

\* render_player_row, "if clicked and not is_official"
toggle_field(w, pid) ==
  LET w1 == flush_time(w)
      g == w1.gs
      w2 == IF g.forced_bench_s[pid] > 0 THEN Emit(w1, "warn_blocked", pid)
            ELSE IF g.players[pid].in_field
            THEN [w1 EXCEPT !.gs.players[pid].in_field = FALSE,
                            !.gs.on_field_set = @ \ {pid}]
            ELSE IF Cardinality(g.on_field_set) >= current_allowed_on_field(g)
            THEN Emit(w1, "warn_capacity", current_allowed_on_field(g))
            ELSE [w1 EXCEPT !.gs.players[pid].in_field = TRUE,
                            !.gs.on_field_set = @ \cup {pid}]
  IN  [w2 EXCEPT !.gs.start_time = Some(w.now)]

\* mutant: the player is withdrawn without a block
force_out_unblocked(w, pid) ==
  LET w1 == flush_time(push_snapshot(w, <<"Retirar", pid>>))
  IN  [Emit([w1 EXCEPT !.gs.on_field_set = @ \ {pid},
                       !.gs.players[pid].in_field = FALSE],
            "blocked", pid)
         EXCEPT !.fo = None]

\* force_out_dialog, the button of one on-field player
force_out(w, pid) ==
  LET duration == Val(w.fo).duration
      w1 == push_snapshot(w, <<"Retirar", pid>>)
      w2 == flush_time(w1)
      w3 == IF pid \in w2.gs.on_field_set
            THEN [w2 EXCEPT !.gs.on_field_set = @ \ {pid}]
            ELSE w2
      w4 == [w3 EXCEPT !.gs.players[pid].in_field = FALSE,
                       !.gs.forced_bench_s[pid] = @ + duration]
  IN  [Emit(w4, "blocked", pid) EXCEPT !.fo = None]

\* a click on the name button: the browser takes no click on a button drawn
\* disabled; otherwise the script runs (flush_time() first) up to the handler
name_button(w, pid) ==
  IF toggle_disabled(w.gs, pid) THEN w ELSE toggle_field(flush_time(w), pid)

-----------------------------------------------------------------------------
(* Script runs.  Every run executes flush_time() before it draws anything  *)
(* and ends with the "keep elapsed" statement; an on_click callback runs   *)
(* before the script, a button handler inside it.                          *)

Begin == World(gs, now, force_out_ctx)

Script(w) == flush_time(w)

Finish(w) == keep_elapsed(w)

Do(w) ==
  /\ gs' = w.gs
  /\ out' = w.out
  /\ force_out_ctx' = w.fo
  /\ UNCHANGED <<now, nticks>>

\* a run started by a click of the user
UserRun(w) ==
  /\ nops < MaxOps
  /\ nops' = nops + 1
  /\ Do(w)

\* the wall clock advances between two runs
Tick(d) ==
  /\ nticks < MaxTicks
  /\ now' = now + d
  /\ nticks' = nticks + 1
  /\ UNCHANGED <<gs, out, force_out_ctx, nops>>

\* a run started by st_autorefresh
Refresh == Do(Finish(Script(Begin))) /\ UNCHANGED nops

StartPlay == UserRun(Finish(Script(start_play(Begin))))

PausePlay == UserRun(Finish(Script(pause_play(Begin))))

UndoLast == UserRun(Finish(Script(undo_last(Begin))))

\* sanction_dialog: "flush_time(); give_x(pid); st.rerun()"
GiveYellow(pid) ==
  UserRun(Finish(Script(give_yellow(flush_time(Script(Begin)), pid))))

GiveTwoMinutes(pid) ==
  UserRun(Finish(Script(give_two_minutes(flush_time(Script(Begin)), pid))))

GiveRed(pid) ==
  UserRun(Finish(Script(give_red(flush_time(Script(Begin)), pid))))

\* shot_dialog / zone_dialog: "flush_time(); register_x(...); st.rerun()"
RegisterGoal(pid, typ, zona, sofrido) ==
  UserRun(Finish(Script(
    register_goal(flush_time(Script(Begin)), pid, typ, zona, sofrido))))

RegisterShot(pid, outcome, typ, zona, sofrido) ==
  UserRun(Finish(Script(
    register_shot(flush_time(Script(Begin)), pid, outcome, typ, zona, sofrido))))

\* conquista_dialog: "add_conquista(pid, label); st.rerun()"
AddConquista(pid, label) ==
  UserRun(Finish(Script(add_conquista(Script(Begin), pid, label))))

TechFault(pid) == UserRun(Finish(tech_fault(Script(Begin), pid)))

ToggleField(pid) == UserRun(Finish(name_button(Begin, pid)))

ForceOut(pid) ==
  /\ force_out_ctx # None
  /\ pid \in gs.on_field_set
  /\ ~gs.players[pid].is_official
  /\ UserRun(Finish(Script(force_out(Script(Begin), pid))))

\* force_out_dialog, "Cancelar" (or "Fechar" when nobody is on the field)
ForceOutCancel ==
  /\ force_out_ctx # None
  /\ UserRun(Finish(Script([Script(Begin) EXCEPT !.fo = None])))

-----------------------------------------------------------------------------
(* Specifications *)

\* the starting seven: the name buttons of players 1..FieldSize, clicked in
\* roster order on the freshly built state
RECURSIVE lineup(_, _)
lineup(w, k) == IF k = 0 THEN w ELSE name_button(lineup(w, k - 1), k)

Kickoff == lineup(World(init_state, 0, None), FieldSize).gs

Init ==
  /\ gs = Kickoff
  /\ now = 0
  /\ out = <<>>
  /\ force_out_ctx = None
  /\ nticks = 0
  /\ nops = 0

\* the entities the explored clicks are made on: a starter, the substitute
\* and the officials
Starter == CHOOSE p \in Players : \A q \in Players : p <= q
Substitute == NPlayers
Targets == {Starter, Starter + 1, Substitute} \cup Officials

Next ==
  \/ \E d \in Deltas : nticks < SpecTicks /\ Tick(d)
  \/ Refresh
  \/ StartPlay
  \/ PausePlay
  \/ UndoLast
  \/ \E pid \in Targets : GiveYellow(pid)
  \/ \E pid \in Targets : GiveTwoMinutes(pid)
  \/ \E pid \in Targets : GiveRed(pid)
  \/ \E pid \in {Starter, Substitute} : ToggleField(pid)
  \/ \E pid \in {Starter, Starter + 1} : ForceOut(pid)
  \/ ForceOutCancel
  \/ RegisterGoal(Starter, "7m", None, FALSE)
  \/ RegisterShot(Substitute, "defendido", "Ponta", Some(1), TRUE)
  \/ TechFault(Starter)
  \/ AddConquista(Starter, "7m")

Spec == Init /\ [][Next]_vars

\* the clock over both halves, with one user of each kind of operation
NextClock ==
  \/ \E d \in Deltas : Tick(d)
  \/ Refresh
  \/ StartPlay
  \/ PausePlay
  \/ UndoLast
  \/ GiveTwoMinutes(Starter)
  \/ ToggleField(Starter)
  \/ RegisterGoal(Starter, "7m", None, FALSE)

SpecClock == Init /\ [][NextClock]_vars

\* sanctions piling up: the sanction dialog on three starters (2 minutes) and
\* on another starter and an official (red), with the clock advancing in steps
\* shorter than a suspension
BenchRun(w) ==
  /\ nops < MaxBenchOps
  /\ nops' = nops + 1
  /\ Do(w)

Suspend(pid) ==
  BenchRun(Finish(Script(give_two_minutes(flush_time(Script(Begin)), pid))))

SendOff(pid) ==
  BenchRun(Finish(Script(give_red(flush_time(Script(Begin)), pid))))

Suspended == {Starter, Starter + 1, Starter + 2}
SentOff == {Starter + 3, NPlayers + 1}

NextBench ==
  \/ \E d \in Deltas : d < TwoMinutes /\ Tick(d)
  \/ Refresh
  \/ StartPlay
  \/ \E pid \in Suspended : Suspend(pid)
  \/ \E pid \in SentOff : SendOff(pid)

SpecBench == Init /\ [][NextBench]_vars

\* the score sheet over both halves: goals scored and conceded, shots, a red
\* card and the undo
NextScore ==
  \/ \E d \in Deltas : Tick(d)
  \/ Refresh
  \/ StartPlay
  \/ UndoLast
  \/ GiveRed(Starter)
  \/ RegisterGoal(Starter, "7m", None, FALSE)
  \/ RegisterGoal(Substitute, "Ponta", Some(1), TRUE)
  \/ RegisterShot(Starter, "falhado", "7m", None, FALSE)
  \/ RegisterShot(Substitute, "defendido", "Ponta", Some(1), TRUE)

SpecScore == Init /\ [][NextScore]_vars

\* the wall clock advances between two runs of a whole match
Wait(d) ==
  /\ nticks < MaxWaits
  /\ now' = now + d
  /\ nticks' = nticks + 1
  /\ UNCHANGED <<gs, out, force_out_ctx, nops>>

\* a whole match, both halves to their end and beyond, without the undo
NextMatch ==
  \/ \E d \in Deltas : Wait(d)
  \/ Refresh
  \/ StartPlay
  \/ PausePlay
  \/ GiveTwoMinutes(Starter)
  \/ ToggleField(Starter)
  \/ RegisterGoal(Starter, "7m", None, FALSE)

SpecMatch == Init /\ [][NextMatch]_vars

\* a run started by a click, of the runs around a stop of the clock
StopRun(w) ==
  /\ nops < MaxStopOps
  /\ nops' = nops + 1
  /\ Do(w)

\* the clock is started, stopped and left stopped while time passes and the
\* user scores, suspends, substitutes and undoes
NextStop ==
  \/ \E d \in Deltas : d < TwoMinutes /\ Tick(d)
  \/ Refresh
  \/ StopRun(Finish(Script(start_play(Begin))))
  \/ StopRun(Finish(Script(pause_play(Begin))))
  \/ StopRun(Finish(Script(undo_last(Begin))))
  \/ StopRun(Finish(Script(
        register_goal(flush_time(Script(Begin)), Starter, "7m", None, FALSE))))
  \/ StopRun(Finish(Script(give_two_minutes(flush_time(Script(Begin)), Starter))))
  \/ StopRun(Finish(name_button(Begin, Substitute)))

SpecStop == Init /\ [][NextStop]_vars

-----------------------------------------------------------------------------
(* Properties.  Begin is the world of the current state: op(Begin) is what *)
(* a call of op does in that state, at the present instant.                *)

Kinds(w) == {w.out[i][1] : i \in 1..Len(w.out)}

Shown == Kinds([out |-> out])

Warnings ==
  {"warn_disqualified", "warn_officials_yellow_limit", "warn_official_has_yellow",
   "warn_team_yellow_limit", "warn_player_has_yellow", "warn_officials_two_limit",
   "warn_need_seven", "warn_nothing_to_undo"}

Rejected(w) == Kinds(w) \cap Warnings # {}

SnapPart(g) == [k \in SNAP_KEYS |-> g[k]]

\* the inputs the scoring functions are tried with
ShotTypes == {"7m", "Ponta"}
ZoneOf(typ) == IF allowed_zones_for(typ) = {} THEN None ELSE Some(1)

FieldEligible(g) ==
  \A pid \in DOMAIN g.players :
    (g.players[pid].in_field \/ pid \in g.on_field_set) =>
      /\ ~g.players[pid].disq
      /\ g.players[pid].two_active = 0
      /\ (pid \in DOMAIN g.forced_bench_s => g.forced_bench_s[pid] = 0)

\* C1: in every reachable state no entity is on the field (in_field flag or
\* member of on_field_set) while disqualified, serving a 2-minute suspension
\* or blocked on the forced bench.
C1_FieldEligibility == FieldEligible(gs)

\* a starter was suspended during play and another one withdrawn to the
\* forced bench: both are off the field
C1_Witness ==
  /\ gs.players[Starter].two_active > 0
  /\ Starter \notin gs.on_field_set
  /\ gs.forced_bench_s[Starter + 1] > 0
  /\ ~gs.players[Starter + 1].in_field

CapsOk(g) ==
  /\ g.officials_yellow_total <= 1
  /\ g.officials_two_total <= 1
  /\ g.team_yellow_total <= 3

\* C2: the collective counters are within their caps (1, 1, 3) in every
\* reachable state, and stay so after one more give_yellow, give_two_minutes
\* or give_red on any entity and after undo_last.
C2_CollectiveCaps ==
  /\ CapsOk(gs)
  /\ CapsOk(undo_last(Begin).gs)
  /\ \A pid \in Entities :
       /\ CapsOk(give_yellow(Begin, pid).gs)
       /\ CapsOk(give_two_minutes(Begin, pid).gs)
       /\ CapsOk(give_red(Begin, pid).gs)

\* the team has its three yellow cards
C2_Witness == gs.team_yellow_total = 3 /\ Shown = {"yellow"}

Mutating(r) == SnapPart(r.gs) # SnapPart(gs)

RoundTrip(r) == Mutating(r) => SnapPart(undo_last(r).gs) = SnapPart(gs)

\* C3: undo_last called right after any single mutating action restores the
\* snapshotted part of the state that held before the action.
C3_UndoRoundTrip ==
  /\ RoundTrip(start_play(Begin))
  /\ RoundTrip(pause_play(Begin))
  /\ \A pid \in Entities :
       /\ RoundTrip(give_yellow(Begin, pid))
       /\ RoundTrip(give_two_minutes(Begin, pid))
       /\ RoundTrip(give_red(Begin, pid))
       /\ RoundTrip(tech_fault(Begin, pid))
       /\ RoundTrip(add_conquista(Begin, pid, "7m"))
       /\ RoundTrip(name_button(Begin, pid))
       /\ (force_out_ctx # None /\ pid \in gs.on_field_set => RoundTrip(force_out(Begin, pid)))
       /\ \A typ \in ShotTypes, sofrido \in BOOLEAN :
            /\ RoundTrip(register_goal(Begin, pid, typ, ZoneOf(typ), sofrido))
            /\ RoundTrip(register_shot(Begin, pid, "defendido", typ, ZoneOf(typ), sofrido))

\* the round trip over the actions that call push_snapshot
SnapshotTakingRoundTrip ==
  \A pid \in Entities :
    /\ RoundTrip(give_yellow(Begin, pid))
    /\ RoundTrip(give_two_minutes(Begin, pid))
    /\ RoundTrip(give_red(Begin, pid))
    /\ RoundTrip(tech_fault(Begin, pid))
    /\ (force_out_ctx # None /\ pid \in gs.on_field_set => RoundTrip(force_out(Begin, pid)))
    /\ \A typ \in ShotTypes, sofrido \in BOOLEAN :
         /\ RoundTrip(register_goal(Begin, pid, typ, ZoneOf(typ), sofrido))
         /\ RoundTrip(register_shot(Begin, pid, "defendido", typ, ZoneOf(typ), sofrido))

NoOp(r) == Rejected(r) => r.gs = gs /\ r.fo = force_out_ctx

\* C4: a call of give_yellow, give_two_minutes, give_red, register_goal,
\* register_shot, start_play or undo_last that rejects its request leaves the
\* whole match state, the retained snapshot included, as it was.
C4_RejectedIsNoOp ==
  /\ NoOp(start_play(Begin))
  /\ NoOp(undo_last(Begin))
  /\ \A pid \in Entities :
       /\ NoOp(give_yellow(Begin, pid))
       /\ NoOp(give_two_minutes(Begin, pid))
       /\ NoOp(give_red(Begin, pid))
       /\ \A typ \in ShotTypes, sofrido \in BOOLEAN :
            /\ NoOp(register_goal(Begin, pid, typ, ZoneOf(typ), sofrido))
            /\ NoOp(register_shot(Begin, pid, "defendido", typ, ZoneOf(typ), sofrido))

Refused(r, pid) ==
  /\ r.gs = gs
  /\ r.fo = force_out_ctx
  /\ r.out = <<<<"warn_disqualified", pid>>>>

\* C5: on a disqualified entity give_yellow, give_two_minutes, give_red,
\* register_goal and register_shot fail with the warning and change nothing;
\* flush_time changes nothing of the entity but its running countdown, which
\* only decreases, and leaves it disqualified.
C5_DisqualifiedIsTerminal ==
  \A pid \in Entities :
    gs.players[pid].disq =>
      /\ Refused(give_yellow(Begin, pid), pid)
      /\ Refused(give_two_minutes(Begin, pid), pid)
      /\ Refused(give_red(Begin, pid), pid)
      /\ \A typ \in ShotTypes, sofrido \in BOOLEAN :
           /\ Refused(register_goal(Begin, pid, typ, ZoneOf(typ), sofrido), pid)
           /\ Refused(register_shot(Begin, pid, "defendido", typ, ZoneOf(typ), sofrido), pid)
      /\ LET p == flush_time(Begin).gs.players[pid]
         IN  /\ p = [gs.players[pid] EXCEPT !.two_active = p.two_active]
             /\ p.two_active <= gs.players[pid].two_active
             /\ p.two_active >= 0

\* a sanction was just refused to a disqualified entity
C5_Witness ==
  /\ out # <<>>
  /\ out[1][1] = "warn_disqualified"
  /\ gs.players[out[1][2]].disq

\* C6: a give_two_minutes that brings a player's two_total to 3 disqualifies
\* the player, appends exactly one entry of 120 to team_penalties, leaves the
\* player's two_active at its value and leaves the player off the field.
C6_ThirdSuspension ==
  \A pid \in Players :
    (~gs.players[pid].disq /\ gs.players[pid].two_total + 1 = 3) =>
      LET r == give_two_minutes(Begin, pid).gs
      IN  /\ r.players[pid].disq
          /\ r.players[pid].two_total = 3
          /\ Len(r.team_penalties) = Len(gs.team_penalties) + 1
          /\ r.team_penalties[Len(r.team_penalties)] = 120
          /\ r.players[pid].two_active = gs.players[pid].two_active
          /\ pid \notin r.on_field_set
          /\ ~r.players[pid].in_field

\* a player was just disqualified by a third suspension, with a countdown
\* still running
C6_Witness ==
  /\ out # <<>>
  /\ out[Len(out)][1] = "disqualified_3x2"
  /\ gs.players[out[Len(out)][2]].two_active > 0
  /\ gs.players[out[Len(out)][2]].disq

\* C7: with officials_two_total at 1, give_two_minutes on any official who
\* is not disqualified fails with the collective-limit warning: nothing is
\* appended to team_penalties, officials_two_total and the official's
\* two_total keep their values, and no forced substitution is requested.
C7_OfficialsTwoLimit ==
  \A pid \in Officials :
    (gs.officials_two_total = 1 /\ ~gs.players[pid].disq) =>
      LET r == give_two_minutes(Begin, pid)
      IN  /\ r.out = <<<<"warn_officials_two_limit", pid>>>>
          /\ r.gs.team_penalties = gs.team_penalties
          /\ r.gs.officials_two_total = 1
          /\ r.gs.players[pid].two_total = gs.players[pid].two_total
          /\ r.fo = force_out_ctx

\* an official was just refused a second suspension of the officials
C7_Witness ==
  /\ out # <<>>
  /\ out[1][1] = "warn_officials_two_limit"
  /\ gs.officials_two_total = 1
  /\ gs.players[out[1][2]].two_total = 0

\* C8: elapsed never exceeds half_len (1800).
C8_ElapsedBounded == gs.elapsed <= 1800

\* the second half ran to its end on a flush that overshot it
C8_Witness ==
  /\ gs.half = 2
  /\ gs.elapsed = 1800
  /\ ~gs.running
  /\ now > 2 * 1800

\* C9 as stated: a flush_time made while the clock runs never lowers elapsed.
C9_ElapsedMonotone ==
  gs.running => flush_time(Begin).gs.elapsed >= gs.elapsed

\* C9 amended: a flush_time made while the clock runs never lowers elapsed,
\* except the flush that ends the first half, which sets it to 0 for the
\* second half.
C9_ElapsedMonotoneWithinHalf ==
  gs.running =>
    LET r == flush_time(Begin).gs
    IN  \/ r.elapsed >= gs.elapsed
        \/ gs.half = 1 /\ r.half = 2 /\ r.elapsed = 0 /\ ~r.running

\* the clock runs in the second half and a flush has already advanced elapsed
C9_Witness ==
  /\ gs.running
  /\ gs.half = 2
  /\ gs.elapsed > 0
  /\ gs.start_time = Some(now)

Due == 
  /\ gs.running
  /\ gs.start_time # None
  /\ now > Val(gs.start_time)
  /\ gs.elapsed + (now - Val(gs.start_time)) >= 1800

\* C10: a flush_time that brings elapsed to half_len or beyond stops the
\* clock and never leaves an overshoot: in half 1 it opens half 2 with
\* elapsed 0, start_time and last_minute_alert cleared; in half 2 it leaves
\* elapsed at exactly 1800 in half 2, emits the match-end notification and
\* resets nothing.
C10_HalfEnd ==
  Due =>
    LET r == flush_time(Begin)
    IN  /\ ~r.gs.running
        /\ <<"half_over", gs.half>> \in {r.out[i] : i \in 1..Len(r.out)}
        /\ IF gs.half = 1
           THEN /\ r.gs.half = 2
                /\ r.gs.elapsed = 0
                /\ r.gs.start_time = None
                /\ ~r.gs.last_minute_alert
                /\ "match_over" \notin Kinds(r)
           ELSE /\ r.gs.half = 2
                /\ r.gs.elapsed = 1800
                /\ r.gs.start_time = Some(now)
                /\ r.gs.last_minute_alert
                /\ "match_over" \in Kinds(r)

\* the match has just ended
C10_Witness ==
  /\ "match_over" \in Shown
  /\ gs.half = 2
  /\ gs.elapsed = 1800

\* C11: in half 1 start_play succeeds (running true, start_time the present
\* instant, nothing else changed) exactly when on_field_set holds 7 entities;
\* with any other count it warns and leaves the whole state as it was.  In
\* half 2 it succeeds whatever is on the field.
C11_StartPlay ==
  LET r == start_play(Begin)
  IN  IF gs.half = 1 /\ Cardinality(gs.on_field_set) # 7
      THEN /\ r.gs = gs
           /\ r.fo = force_out_ctx
           /\ r.out = <<<<"warn_need_seven", 0>>>>
      ELSE /\ r.gs = [gs EXCEPT !.running = TRUE, !.start_time = Some(now)]
           /\ r.fo = force_out_ctx
           /\ r.out = <<>>

\* a start of the first half was just refused with six on the field
C11_Witness ==
  /\ gs.half = 1
  /\ Cardinality(gs.on_field_set) = 6
  /\ out = <<<<"warn_need_seven", 0>>>>

\* C12: current_allowed_on_field is max(3, 7 - (a + b)), a the number of
\* players with two_active > 0 and b the number of positive entries of
\* team_penalties (officials and entries at 0 do not count): never below 3,
\* never above 7.
C12_AllowedOnField ==
  LET a == Cardinality({pid \in Players : gs.players[pid].two_active > 0})
      b == Len(SelectSeq(gs.team_penalties, LAMBDA t : t > 0))
      r == current_allowed_on_field(gs)
  IN  /\ r = (IF 7 - (a + b) >= 3 THEN 7 - (a + b) ELSE 3)
      /\ r >= 3
      /\ r <= 7

\* five sanctions are being served at once and the floor of three applies
C12_Witness ==
  /\ Cardinality({pid \in Players : gs.players[pid].two_active > 0})
       + Len(SelectSeq(gs.team_penalties, LAMBDA t : t > 0)) >= 5
  /\ current_allowed_on_field(gs) = 3

\* C13: undo_last without a retained snapshot warns that there is nothing to
\* undo and changes nothing; an undo_last that succeeds empties the snapshot
\* slot, so a second undo_last right after it (the script having run in
\* between) fails in that way.
C13_UndoOnce ==
  LET r == undo_last(Begin)
  IN  IF gs.last_snapshot = None
      THEN /\ r.gs = gs
           /\ r.fo = force_out_ctx
           /\ r.out = <<<<"warn_nothing_to_undo", 0>>>>
      ELSE /\ r.gs.last_snapshot = None
           /\ r.out = <<<<"undone", 0>>>>
           /\ LET m == Finish(Script(r))
                  r2 == undo_last(m)
              IN  /\ m.gs.last_snapshot = None
                  /\ r2.gs = m.gs
                  /\ "warn_nothing_to_undo" \in Kinds(r2)
                  /\ "undone" \notin Kinds([out |-> SubSeq(r2.out, Len(m.out) + 1, Len(r2.out))])

\* a sanction of an official was undone (its request for a forced
\* substitution is still open) and a second undo was refused
C13_Witness ==
  /\ out = <<<<"warn_nothing_to_undo", 0>>>>
  /\ gs.last_snapshot = None
  /\ force_out_ctx # None
  /\ gs.team_penalties = <<>>

\* the actions tried one after the other
FirstActions ==
  {give_two_minutes(Begin, pid) : pid \in Officials \cup {Starter}}
    \cup {give_red(Begin, pid) : pid \in Officials \cup {Starter}}

SecondActions(a) ==
  {force_out(a, pid) : pid \in (IF a.fo = None THEN {} ELSE {Starter, Starter + 1} \cap a.gs.on_field_set)}
    \cup {give_yellow(a, pid) : pid \in {Substitute, NPlayers + 1}}
    \cup {register_goal(a, Substitute, "7m", None, FALSE)}

\* C14: one snapshot at most is retained (the slot is empty or holds the
\* SNAP_KEYS of one state, no older snapshot inside), and after two accepted
\* snapshot-taking actions A then B undo_last gives back the state that held
\* just before B, A's effects included, and leaves nothing more to undo.
C14_OneLevel ==
  /\ gs.last_snapshot # None =>
       DOMAIN Val(gs.last_snapshot) = SNAP_KEYS \cup {"label"}
  /\ \A a \in FirstActions : ~Rejected(a) =>
       \A b \in SecondActions(a) : ~Rejected(b) =>
         LET u == undo_last(b)
         IN  /\ SnapPart(u.gs) = SnapPart(a.gs)
             /\ SnapPart(u.gs) # SnapPart(gs)
             /\ u.gs.last_snapshot = None
             /\ undo_last(u).gs = u.gs
             /\ Rejected(undo_last(u))

\* an official's suspension, the forced substitution it asked for, and an
\* undo: the suspension stands, the substitution is gone, nothing to undo
C14_Witness ==
  /\ out = <<<<"undone", 0>>>>
  /\ gs.officials_two_total = 1
  /\ Len(gs.team_penalties) = 1
  /\ force_out_ctx = None
  /\ \A pid \in Players : gs.forced_bench_s[pid] = 0
  /\ gs.last_snapshot = None

\* the part of the match state a run leaves, the undo slot aside
Match(w) == [k \in DOMAIN w.gs \ {"last_snapshot"} |-> w.gs[k]]

\* the run of an action started from the state as it is gives what it gives
\* started from the state flushed to the present instant
OnFlushed(a, b) == Match(Finish(Script(a))) = Match(Finish(Script(b)))

\* C15: every mutating action is applied on a state flushed to the instant of
\* the action: its run from the current state leaves the match state that it
\* leaves when flush_time has been called just before it, so that no time
\* since start_time is dropped from elapsed, time_played or a countdown.
C15_FlushedBeforeAction ==
  /\ OnFlushed(start_play(Begin), start_play(flush_time(Begin)))
  /\ OnFlushed(pause_play(Begin), pause_play(flush_time(Begin)))
  /\ OnFlushed(undo_last(Begin), undo_last(flush_time(Begin)))
  /\ \A pid \in Targets :
       /\ OnFlushed(give_yellow(flush_time(Script(Begin)), pid),
                    give_yellow(flush_time(Begin), pid))
       /\ OnFlushed(give_two_minutes(flush_time(Script(Begin)), pid),
                    give_two_minutes(flush_time(Begin), pid))
       /\ OnFlushed(give_red(flush_time(Script(Begin)), pid),
                    give_red(flush_time(Begin), pid))
       /\ OnFlushed(register_goal(flush_time(Script(Begin)), pid, "7m", None, FALSE),
                    register_goal(flush_time(Begin), pid, "7m", None, FALSE))
       /\ OnFlushed(register_shot(flush_time(Script(Begin)), pid, "defendido", "7m", None, FALSE),
                    register_shot(flush_time(Begin), pid, "defendido", "7m", None, FALSE))
       /\ OnFlushed(tech_fault(Script(Begin), pid), tech_fault(flush_time(Begin), pid))
       /\ OnFlushed(add_conquista(flush_time(Script(Begin)), pid, "7m"),
                    add_conquista(flush_time(Begin), pid, "7m"))
       /\ (~toggle_disabled(gs, pid) =>
             OnFlushed(name_button(Begin, pid), toggle_field(flush_time(Begin), pid)))
       /\ (force_out_ctx # None /\ pid \in gs.on_field_set =>
             OnFlushed(force_out(Script(Begin), pid), force_out(flush_time(Begin), pid)))

\* the same without start_play
FlushedBeforeOthers ==
  /\ OnFlushed(pause_play(Begin), pause_play(flush_time(Begin)))
  /\ OnFlushed(undo_last(Begin), undo_last(flush_time(Begin)))
  /\ \A pid \in Targets :
       /\ OnFlushed(give_yellow(flush_time(Script(Begin)), pid),
                    give_yellow(flush_time(Begin), pid))
       /\ OnFlushed(give_two_minutes(flush_time(Script(Begin)), pid),
                    give_two_minutes(flush_time(Begin), pid))
       /\ OnFlushed(give_red(flush_time(Script(Begin)), pid),
                    give_red(flush_time(Begin), pid))
       /\ OnFlushed(register_goal(flush_time(Script(Begin)), pid, "7m", None, FALSE),
                    register_goal(flush_time(Begin), pid, "7m", None, FALSE))
       /\ OnFlushed(tech_fault(Script(Begin), pid), tech_fault(flush_time(Begin), pid))
       /\ OnFlushed(add_conquista(flush_time(Script(Begin)), pid, "7m"),
                    add_conquista(flush_time(Begin), pid, "7m"))
       /\ (force_out_ctx # None /\ pid \in gs.on_field_set =>
             OnFlushed(force_out(Script(Begin), pid), force_out(flush_time(Begin), pid)))
       /\ (~toggle_disabled(gs, pid) =>
             OnFlushed(name_button(Begin, pid), toggle_field(flush_time(Begin), pid)))

\* the shot types the dialogs pass: the table's, and the keeper's own goal
DialogTypes == GOAL_CHOICES \cup {"Golo GR"}

NoZoneTypes == {typ \in DialogTypes : allowed_zones_for(typ) = {}}

\* C16: allowed_zones_for is a fixed lookup into 1..8: the types mapped to
\* ALL and the types absent from the table give 1..8, "Baliza Aberta" and
\* "7m" give the empty set, the others their listed zones; register_goal and
\* register_shot with a type of the empty set and no zone succeed and append
\* an entry whose zone is None.
C16_AllowedZones ==
  /\ \A typ \in DialogTypes : allowed_zones_for(typ) \subseteq 1..8
  /\ \A typ \in {"1 Vaga", "2 Vaga", "3 Vaga", "Golo GR"} :
       allowed_zones_for(typ) = 1..8
  /\ NoZoneTypes = {"Baliza Aberta", "7m"}
  /\ allowed_zones_for("Ponta") = {1, 5}
  /\ \A typ \in {"Pivot", "Penetracao", "6m"} : allowed_zones_for(typ) = {2, 3, 4}
  /\ allowed_zones_for("9m") = {6, 7, 8}
  /\ \A pid \in Entities : ~gs.players[pid].disq =>
       \A typ \in NoZoneTypes, sofrido \in BOOLEAN :
         LET r == register_goal(Begin, pid, typ, None, sofrido)
             q == register_shot(Begin, pid, "falhado", typ, None, sofrido)
         IN  /\ ~Rejected(r)
             /\ r.gs.goals =
                  Append(gs.goals, [r.gs.goals[Len(r.gs.goals)] EXCEPT !.zona = None, !.tipo = typ])
             /\ ~Rejected(q)
             /\ q.gs.shots =
                  Append(gs.shots, [q.gs.shots[Len(q.gs.shots)] EXCEPT !.zona = None, !.tipo = typ])

\* a 7-metre goal is in the ledger, without a zone
C16_Witness ==
  /\ gs.goals # <<>>
  /\ gs.goals[Len(gs.goals)].tipo = "7m"
  /\ gs.goals[Len(gs.goals)].zona = None
  /\ gs.score_for[1] = 1

\* the sum of one field over the entities of S
RECURSIVE SumOf(_, _, _)
SumOf(g, S, field) ==
  IF S = {} THEN 0
  ELSE LET pid == CHOOSE x \in S : TRUE
       IN  g.players[pid][field] + SumOf(g, S \ {pid}, field)

Consistent(g) ==
  /\ g.team_yellow_total = SumOf(g, Players, "yellow")
  /\ g.officials_yellow_total = SumOf(g, Officials, "yellow")
  /\ g.officials_two_total = SumOf(g, Officials, "two_total")

\* C17: in every reachable state team_yellow_total is the sum of yellow over
\* the players, officials_yellow_total the sum of yellow over the officials
\* and officials_two_total the sum of two_total over the officials; one more
\* yellow card or suspension on any entity, or an undo, keeps it so.
C17_CountersAreSums ==
  /\ Consistent(gs)
  /\ Consistent(undo_last(Begin).gs)
  /\ \A pid \in Entities :
       /\ Consistent(give_yellow(Begin, pid).gs)
       /\ Consistent(give_two_minutes(Begin, pid).gs)

\* a player and an official hold a yellow card and an official a suspension
C17_Witness ==
  /\ gs.team_yellow_total = 1
  /\ gs.officials_yellow_total = 1
  /\ gs.officials_two_total = 1

InRange(g) ==
  \A pid \in Entities :
    /\ g.players[pid].yellow \in {0, 1}
    /\ g.players[pid].red \in {0, 1}
    /\ g.players[pid].two_total >= 0
    /\ g.players[pid].two_total <= (IF pid \in Officials THEN 1 ELSE 3)

\* C18: in every reachable state yellow and red of every entity are 0 or 1,
\* a player's two_total is at most 3 and an official's at most 1; one more
\* sanction of any kind on any entity, or an undo, keeps it so.
C18_SanctionRanges ==
  /\ InRange(gs)
  /\ InRange(undo_last(Begin).gs)
  /\ \A pid \in Entities :
       /\ InRange(give_yellow(Begin, pid).gs)
       /\ InRange(give_two_minutes(Begin, pid).gs)
       /\ InRange(give_red(Begin, pid).gs)

\* a player at three suspensions
C18_Witness ==
  \E pid \in Players : gs.players[pid].two_total = 3 /\ gs.players[pid].red = 0

\* C19: give_two_minutes on a player who is not disqualified and whose
\* two_total becomes 1 or 2 adds exactly 120 to the player's two_active,
\* whatever countdown was left, leaves the player off the field (out of
\* on_field_set, in_field false) and not disqualified, and appends nothing to
\* team_penalties.
C19_Suspension ==
  \A pid \in Players :
    (~gs.players[pid].disq /\ gs.players[pid].two_total + 1 \in {1, 2}) =>
      LET r == give_two_minutes(Begin, pid).gs
      IN  /\ r.players[pid].two_total = gs.players[pid].two_total + 1
          /\ r.players[pid].two_active = gs.players[pid].two_active + 120
          /\ pid \notin r.on_field_set
          /\ ~r.players[pid].in_field
          /\ ~r.players[pid].disq
          /\ Len(r.team_penalties) = Len(gs.team_penalties)

\* a second suspension was added on top of a countdown half served
C19_Witness ==
  /\ out = <<<<"two_minutes", Starter>>>>
  /\ gs.players[Starter].two_total = 2
  /\ gs.players[Starter].two_active = 60 + 120
  /\ ~gs.players[Starter].in_field
  /\ ~gs.players[Starter].disq

\* C20: give_red on an entity that is not disqualified, player or official,
\* disqualifies it, adds 1 to its red, appends exactly one entry of 120 to
\* team_penalties and leaves it off the field; yellow, two_total, two_active
\* and the three collective counters keep their values.
C20_RedCard ==
  \A pid \in Entities :
    ~gs.players[pid].disq =>
      LET r == give_red(Begin, pid).gs
      IN  /\ r.players[pid].disq
          /\ r.players[pid].red = gs.players[pid].red + 1
          /\ Len(r.team_penalties) = Len(gs.team_penalties) + 1
          /\ r.team_penalties[Len(r.team_penalties)] = 120
          /\ pid \notin r.on_field_set
          /\ ~r.players[pid].in_field
          /\ r.players[pid].yellow = gs.players[pid].yellow
          /\ r.players[pid].two_total = gs.players[pid].two_total
          /\ r.players[pid].two_active = gs.players[pid].two_active
          /\ r.team_yellow_total = gs.team_yellow_total
          /\ r.officials_yellow_total = gs.officials_yellow_total
          /\ r.officials_two_total = gs.officials_two_total

\* a suspended player was just shown the red card: the countdown goes on
C20_Witness ==
  /\ out = <<<<"red", Starter>>>>
  /\ gs.players[Starter].disq
  /\ gs.players[Starter].red = 1
  /\ gs.players[Starter].two_active > 0
  /\ gs.players[Starter].two_total = 1

Request == Some([duration |-> 120])

Asked(r) == IF r.fo = None THEN None ELSE Some([duration |-> Val(r.fo).duration])

\* C21: a request for a forced substitution, with a block of 120 seconds, is
\* raised exactly by a 2-minute sanction or a red card that an official
\* receives; a sanction of a player, a yellow card and a refused sanction
\* leave the pending request as it was.
C21_ForcedSubstitutionRequest ==
  \A pid \in Entities :
    LET y == give_yellow(Begin, pid)
        t == give_two_minutes(Begin, pid)
        r == give_red(Begin, pid)
    IN  /\ y.fo = force_out_ctx
        /\ IF pid \in Officials /\ ~Rejected(t)
           THEN Asked(t) = Request /\ t.gs.players[pid].two_total = gs.players[pid].two_total + 1
           ELSE t.fo = force_out_ctx
        /\ IF pid \in Officials /\ ~Rejected(r)
           THEN Asked(r) = Request /\ r.gs.players[pid].red = 1
           ELSE r.fo = force_out_ctx

\* an official was just sent off and the dialog is open
C21_Witness ==
  /\ out # <<>>
  /\ out[1][1] = "red_official"
  /\ Asked([fo |-> force_out_ctx]) = Request

\* C22: the resolution of a forced substitution with a player on the field
\* takes the player out of on_field_set, clears in_field and leaves
\* forced_bench_s at the block of 120 seconds; while forced_bench_s is
\* positive the name button does not bring the player back, and only
\* flush_time with the clock running lowers it.
C22_ForcedBench ==
  \A pid \in Players :
    /\ (force_out_ctx # None /\ pid \in gs.on_field_set) =>
         LET r == force_out(Begin, pid)
         IN  /\ pid \notin r.gs.on_field_set
             /\ ~r.gs.players[pid].in_field
             /\ r.gs.forced_bench_s[pid] = 120
             /\ r.fo = None
    /\ gs.forced_bench_s[pid] > 0 =>
         LET f == flush_time(Begin)
             t == toggle_field(f, pid)
         IN  /\ pid \notin gs.on_field_set
             /\ pid \notin name_button(Begin, pid).gs.on_field_set
             /\ (f.gs.forced_bench_s[pid] > 0 =>
                   /\ pid \notin t.gs.on_field_set
                   /\ ~t.gs.players[pid].in_field
                   /\ "warn_blocked" \in Kinds(t))
             /\ f.gs.forced_bench_s[pid] <= gs.forced_bench_s[pid]
             /\ (~gs.running => f.gs.forced_bench_s[pid] = gs.forced_bench_s[pid])

\* a withdrawn starter has served half of the block
C22_Witness ==
  /\ gs.forced_bench_s[Starter] = 60
  /\ Starter \notin gs.on_field_set
  /\ ~gs.players[Starter].in_field
  /\ gs.running

InField(g) == {pid \in Entities : g.players[pid].in_field}

\* C23: the name button of an enabled player who is off the field brings the
\* player on (on_field_set and in_field) only when on_field_set is strictly
\* smaller than current_allowed_on_field at the instant of the click;
\* otherwise it warns of the capacity and leaves on_field_set and the
\* in_field flags as they were.  For a player on the field it always takes
\* the player off, whatever the capacity.
C23_ToggleCapacity ==
  \A pid \in Players :
    ~toggle_disabled(gs, pid) =>
      LET allowed == current_allowed_on_field(flush_time(Begin).gs)
          r == name_button(Begin, pid)
      IN  IF pid \in gs.on_field_set
          THEN /\ r.gs.on_field_set = gs.on_field_set \ {pid}
               /\ InField(r.gs) = InField(gs) \ {pid}
          ELSE IF Cardinality(gs.on_field_set) < allowed
          THEN /\ r.gs.on_field_set = gs.on_field_set \cup {pid}
               /\ InField(r.gs) = InField(gs) \cup {pid}
               /\ "warn_capacity" \notin Kinds(r)
          ELSE /\ r.gs.on_field_set = gs.on_field_set
               /\ InField(r.gs) = InField(gs)
               /\ <<"warn_capacity", allowed>> \in {r.out[i] : i \in 1..Len(r.out)}

\* the substitute was just refused: the field is as full as allowed
C23_Witness ==
  /\ out # <<>>
  /\ out[Len(out)][1] = "warn_capacity"
  /\ Substitute \notin gs.on_field_set
  /\ Cardinality(gs.on_field_set) = current_allowed_on_field(gs)

\* C24: the name button of an official, of a disqualified player, of a
\* player with two_active > 0 or of a player with forced_bench_s > 0 changes
\* neither on_field_set nor any in_field flag.
C24_ToggleRefused ==
  \A pid \in Entities :
    (\/ pid \in Officials
     \/ gs.players[pid].disq
     \/ gs.players[pid].two_active > 0
     \/ gs.forced_bench_s[pid] > 0) =>
      LET r == name_button(Begin, pid)
      IN  /\ r.gs.on_field_set = gs.on_field_set
          /\ InField(r.gs) = InField(gs)

\* a suspended player is off the field while the field has room
C24_Witness ==
  /\ gs.players[Starter + 1].two_active > 0
  /\ ~gs.players[Starter + 1].disq
  /\ Starter + 1 \notin gs.on_field_set
  /\ Cardinality(gs.on_field_set) < current_allowed_on_field(gs)

\* the wall-clock time a flush_time of this instant would account for
Lapse ==
  IF gs.running /\ gs.start_time # None THEN Max(0, now - Val(gs.start_time)) ELSE 0

\* C25: a flush_time in which a team_penalties entry reaches 0 takes that
\* entry out of the queue: the queue is shorter by the entries that reached
\* 0 and holds, in their insertion order, the entries that are still running.
C25_ExpiredRemoved ==
  LET f == flush_time(Begin)
      queue == gs.team_penalties
      reached == {i \in 1..Len(queue) : queue[i] > 0 /\ queue[i] <= Lapse}
      left == f.gs.team_penalties
  IN  reached # {} =>
        /\ Len(left) = Len(queue) - Cardinality(reached)
        /\ \A i \in 1..Len(left) : left[i] > 0

\* what is left of a countdown v after d seconds of running clock
Remaining(v, d) == IF v > d THEN v - d ELSE 0

\* C26: no countdown is ever negative (two_active of every entity, every
\* entry of team_penalties, every forced_bench_s), and a flush_time that
\* accounts for d seconds replaces every positive countdown v by
\* max(0, v - d), also when d is larger than v.
C26_NeverNegative ==
  /\ \A pid \in Entities : gs.players[pid].two_active >= 0
  /\ \A i \in 1..Len(gs.team_penalties) : gs.team_penalties[i] >= 0
  /\ \A pid \in DOMAIN gs.forced_bench_s : gs.forced_bench_s[pid] >= 0
  /\ Lapse > 0 =>
       LET f == flush_time(Begin).gs IN
       /\ \A pid \in Entities :
            f.players[pid].two_active = Remaining(gs.players[pid].two_active, Lapse)
       /\ Len(f.team_penalties) = Len(gs.team_penalties)
       /\ \A i \in 1..Len(gs.team_penalties) :
            f.team_penalties[i] = Remaining(gs.team_penalties[i], Lapse)
       /\ DOMAIN f.forced_bench_s = DOMAIN gs.forced_bench_s
       /\ \A pid \in DOMAIN gs.forced_bench_s :
            f.forced_bench_s[pid] = Remaining(gs.forced_bench_s[pid], Lapse)

\* a suspension of 120 s was cut at 0 by a flush of 1740 s
C26_Witness ==
  /\ gs.elapsed > TwoMinutes
  /\ gs.players[Starter].two_total > 0
  /\ gs.players[Starter].two_active = 0
  /\ \E i \in 1..Len(out) : out[i] = <<"two_minutes_over", Starter>>
  /\ \E i \in 1..Len(gs.team_penalties) : gs.team_penalties[i] = 0

\* C27: while the clock is not running flush_time changes nothing (elapsed,
\* start_time, half, every time_played, two_active, team_penalties entry and
\* forced_bench_s) and shows nothing, however long ago start_time was.
C27_FlushWhilePaused ==
  ~gs.running =>
    LET f == flush_time(Begin)
    IN  /\ f.gs = gs
        /\ f.out = <<>>
        /\ f.fo = force_out_ctx

\* paused during a suspension, and a minute or more of wall-clock time has
\* passed since start_time
C27_Witness ==
  /\ ~gs.running
  /\ gs.start_time # None
  /\ now > Val(gs.start_time)
  /\ gs.elapsed > 0
  /\ gs.players[Starter].two_active > 0

\* C28: a second flush_time at the same instant as the first one changes
\* nothing of the state the first one left and shows no notification.
C28_FlushIdempotent ==
  LET first == flush_time(Begin)
      second == flush_time([first EXCEPT !.out = <<>>])
  IN  /\ second.gs = first.gs
      /\ second.out = <<>>
      /\ second.fo = first.fo

\* a flush has just accounted for a delta in which a suspension ended
C28_Witness ==
  /\ gs.running
  /\ gs.start_time = Some(now)
  /\ gs.elapsed > 0
  /\ \E i \in 1..Len(out) : out[i] = <<"two_minutes_over", Starter>>

TimePlayed(g) == [pid \in Entities |-> g.players[pid].time_played]

\* the operations other than flush_time and undo_last, applied to w
Operations(w) ==
  {start_play(w), pause_play(w),
   register_goal(w, Starter, "7m", None, FALSE),
   register_shot(w, Substitute, "defendido", "Ponta", Some(1), TRUE),
   add_conquista(w, Starter, "7m"),
   [w EXCEPT !.fo = None]}
  \cup {give_yellow(w, pid) : pid \in Targets}
  \cup {give_two_minutes(w, pid) : pid \in Targets}
  \cup {give_red(w, pid) : pid \in Targets}
  \cup {tech_fault(w, pid) : pid \in Targets}
  \cup {toggle_field(w, pid) : pid \in Targets \ Officials}
  \cup (IF w.fo = None THEN {}
        ELSE {force_out(w, pid) : pid \in w.gs.on_field_set})

\* C29: a flush_time accounting for d seconds of running clock adds exactly
\* d to time_played of every non-official member of on_field_set and leaves
\* everybody else's time_played as it was; on the flushed state no other
\* operation (undo_last apart) changes any time_played.
C29_TimePlayed ==
  LET f == flush_time(Begin)
  IN  /\ \A pid \in Entities :
           f.gs.players[pid].time_played =
             gs.players[pid].time_played
               + (IF pid \in gs.on_field_set /\ pid \notin Officials THEN Lapse ELSE 0)
      /\ \A r \in Operations(f) : TimePlayed(r.gs) = TimePlayed(f.gs)

\* the substitute played while a starter sat out
C29_Witness ==
  /\ gs.players[Substitute].time_played > 0
  /\ gs.players[Starter].time_played = 0
  /\ Starter \notin gs.on_field_set

\* C30: a disqualification is never lifted by anything but undo_last: every
\* other operation leaves disq true, flush_time included, also when the
\* player's two_active runs out in it; and after the flush the player is off
\* the field and the name button does not bring the player on.
C30_DisqualifiedForGood ==
  \A pid \in Entities :
    gs.players[pid].disq =>
      LET f == flush_time(Begin)
          b == name_button(f, pid)
      IN  /\ f.gs.players[pid].disq
          /\ \A r \in Operations(Begin) \cup Operations(f) : r.gs.players[pid].disq
          /\ pid \notin gs.on_field_set
          /\ pid \notin f.gs.on_field_set
          /\ b.gs.players[pid].disq
          /\ pid \notin b.gs.on_field_set
          /\ ~b.gs.players[pid].in_field

\* the suspension of a player sent off with a red card has run out
C30_Witness ==
  /\ gs.players[Starter].disq
  /\ gs.players[Starter].red = 1
  /\ gs.players[Starter].two_total = 1
  /\ gs.players[Starter].two_active = 0
  /\ \E i \in 1..Len(out) : out[i] = <<"two_minutes_over", Starter>>

\* the goals of the ledger of half h, scored (sofrido = FALSE) or conceded
Tally(g, h, sofrido) ==
  Cardinality({i \in 1..Len(g.goals) :
                 g.goals[i].half = h /\ g.goals[i].sofrido = sofrido})

ScoresMatch(g) ==
  \A h \in 1..2 : /\ g.score_for[h] = Tally(g, h, FALSE)
                  /\ g.score_against[h] = Tally(g, h, TRUE)

\* C31: for each half h, score_for[h] is the number of goals of the ledger
\* with half = h and sofrido false and score_against[h] the number with
\* half = h and sofrido true; an accepted register_goal appends one entry
\* stamped with the current half and adds 1 to exactly one of the four
\* scores; an accepted register_shot appends one shot and changes no score.
C31_ScoreSheet ==
  /\ ScoresMatch(gs)
  /\ \A pid \in {Starter, Substitute}, sofrido \in BOOLEAN :
       ~gs.players[pid].disq =>
         LET r == register_goal(Begin, pid, "Ponta", Some(1), sofrido).gs
             s == register_shot(Begin, pid, "defendido", "Ponta", Some(1), sofrido).gs
         IN  /\ Len(r.goals) = Len(gs.goals) + 1
             /\ SubSeq(r.goals, 1, Len(gs.goals)) = gs.goals
             /\ r.goals[Len(r.goals)].half = gs.half
             /\ r.goals[Len(r.goals)].sofrido = sofrido
             /\ r.shots = gs.shots
             /\ \A h \in 1..2 :
                  /\ r.score_for[h] =
                       gs.score_for[h] + (IF h = gs.half /\ ~sofrido THEN 1 ELSE 0)
                  /\ r.score_against[h] =
                       gs.score_against[h] + (IF h = gs.half /\ sofrido THEN 1 ELSE 0)
             /\ ScoresMatch(r)
             /\ Len(s.shots) = Len(gs.shots) + 1
             /\ s.goals = gs.goals
             /\ s.score_for = gs.score_for
             /\ s.score_against = gs.score_against

\* a goal scored in the first half and one conceded in the second
C31_Witness ==
  /\ gs.score_for[1] = 1
  /\ gs.score_against[2] = 1
  /\ Len(gs.goals) = 2
  /\ gs.half = 2

\* the playing time of the half that the state stands for at instant t
Reading(g, t) ==
  IF g.running /\ g.start_time # None
  THEN g.elapsed + (t - Val(g.start_time))
  ELSE g.elapsed

\* a run at one instant that leaves the clock running in the same half
\* leaves start_time set and the playing time of the half as it found it
Accounted ==
  (now' = now /\ gs'.running /\ gs'.half = gs.half) =>
    /\ gs'.start_time # None
    /\ Reading(gs', now') = Reading(gs, now)

\* C32: whenever running is true start_time is set, and it is the instant up
\* to which elapsed has been accounted: elapsed plus the time since
\* start_time is the playing time of the half, which only the passing of
\* time with the clock running changes.
C32_StartTimeAccounts ==
  /\ [](gs.running => gs.start_time # None)
  /\ [][Accounted]_vars

FieldAgrees(g) ==
  /\ g.on_field_set = InField(g)
  /\ g.on_field_set \subseteq Players

\* C33: on_field_set is exactly the set of entities whose in_field flag is
\* true and holds no official, in every reachable state and after one more
\* toggle, sanction, resolution of a forced substitution or undo.
C33_FieldAgrees ==
  /\ FieldAgrees(gs)
  /\ FieldAgrees(undo_last(Begin).gs)
  /\ \A pid \in Entities : FieldAgrees(name_button(Begin, pid).gs)
  /\ \A r \in Operations(flush_time(Begin)) : FieldAgrees(r.gs)

\* the substitute has replaced a starter and another starter was suspended
C33_Witness ==
  /\ Substitute \in gs.on_field_set
  /\ gs.players[Substitute].in_field
  /\ Starter \notin gs.on_field_set
  /\ ~gs.players[Starter].in_field
  /\ gs.players[Starter + 1].two_active > 0
  /\ Starter + 1 \notin gs.on_field_set

\* C34: in every reachable state the number of players in on_field_set is at
\* most current_allowed_on_field, also right after a sanction that lowers the
\* allowed number and when a forced substitution is cancelled.
C34_WithinAllowed ==
  Cardinality(gs.on_field_set) <= current_allowed_on_field(gs)

\* the game time played so far
GameTime(g) == half_len * (g.half - 1) + g.elapsed

\* C35: without undo, time_played of every player is at most the game time
\* played so far, half_len * (half - 1) + elapsed, and so at most
\* 2 * half_len, also across the flush that ends a half with a delta larger
\* than the time that was left.
C35_TimePlayedBounded ==
  \A pid \in Players :
    /\ gs.players[pid].time_played <= GameTime(gs)
    /\ gs.players[pid].time_played <= 2 * half_len

\* a step taken with the clock stopped: only start_play sets it running, and
\* unless it is an undo it leaves elapsed and every time_played as they are
\* and lets no countdown run down
StaysStopped ==
  ~gs.running =>
    /\ gs'.running => gs' = Finish(Script(start_play(Begin))).gs
    /\ (~gs'.running /\ gs' # Finish(Script(undo_last(Begin))).gs) =>
         /\ gs'.elapsed = gs.elapsed \/ gs'.half # gs.half
         /\ TimePlayed(gs') = TimePlayed(gs)
         /\ \A pid \in Entities : gs'.players[pid].two_active >= gs.players[pid].two_active
         /\ \A pid \in Players : gs'.forced_bench_s[pid] >= gs.forced_bench_s[pid]
         /\ Len(gs'.team_penalties) >= Len(gs.team_penalties)
         /\ \A i \in 1..Len(gs.team_penalties) :
              gs'.team_penalties[i] = gs.team_penalties[i]

\* C36: once the clock is stopped it stays stopped until start_play: running
\* stays false and neither elapsed nor any time_played nor any countdown is
\* advanced by the time that passes, whatever flush, toggle, sanction, goal
\* or undo_last happens in between.
C36_StaysStopped == [][StaysStopped]_vars

\* the second half has reached half_len
Ended(g) == g.half = 2 /\ g.elapsed = half_len /\ ~g.running

\* a step taken after the end of the match
StaysEnded ==
  Ended(gs) =>
    /\ ~gs'.running
    /\ gs'.elapsed = gs.elapsed
    /\ TimePlayed(gs') = TimePlayed(gs)
    /\ \A pid \in Entities : gs'.players[pid].two_active >= gs.players[pid].two_active
    /\ \A pid \in Players : gs'.forced_bench_s[pid] >= gs.forced_bench_s[pid]
    /\ \A i \in 1..Len(gs.team_penalties) :
         i <= Len(gs'.team_penalties) /\ gs'.team_penalties[i] = gs.team_penalties[i]
    /\ now' = now => "match_over" \notin Kinds([out |-> out'])

\* C37: without undo, once the second half has reached half_len (half = 2,
\* elapsed = half_len, running false) no later operation sets the clock
\* running again, changes elapsed or a time_played or runs a countdown down,
\* and the end of the match is not announced a second time.
C37_MatchStaysEnded == [][StaysEnded]_vars

=============================================================================
